---- MODULE Spec2Model ----
(***************************************************************************)
(* Trading ledger core of the paper-trading simulator: database.py (the    *)
(* SQLite ledger store with its two process-wide caches) and               *)
(* trading_logic.py (execute_buy / execute_sell under the retry wrapper of *)
(* utils.py, and get_portfolio_value).                                     *)
(*                                                                         *)
(* Money is a Python float.  The model keeps the float's shape at reduced  *)
(* width: a value is an integer count of quanta (one dollar = Unit quanta) *)
(* and every arithmetic result is rounded to MantBits significant bits,    *)
(* round-half-to-even, as IEEE-754 does with 53 bits.                      *)
(***************************************************************************)
EXTENDS Integers, Sequences, FiniteSets, TLC

\* ------------------------------------------------------------------ bounds
MantBits == 17
MaxCalls == 3
MaxConcCalls == 2
MaxElapsed == 5
MaxFaultCalls == 2
MaxFaults == 2

\* ------------------------------------------------------- program constants
CACHE_TTL == 5
max_attempts == 2

\* ------------------------------------------------------------ float model
RECURSIVE Pow2(_)
Pow2(k) == IF k = 0 THEN 1 ELSE 2 * Pow2(k - 1)

Unit == Pow2(MantBits - 1)

Abs(x) == IF x < 0 THEN -x ELSE x

\* smallest e >= 0 with a / (b * 2^e) < 2^MantBits   (a >= 0, b > 0)
RECURSIVE Exponent(_, _, _)
Exponent(a, b, e) ==
    IF a \div (b * Pow2(e)) < Pow2(MantBits) THEN e ELSE Exponent(a, b, e + 1)

\* a / b rounded to the nearest integer, ties to even   (a >= 0, b > 0)
RoundHalfEven(a, b) ==
    LET q == a \div b
        r == a % b
    IN  IF 2 * r > b \/ (2 * r = b /\ q % 2 = 1) THEN q + 1 ELSE q

\* the float nearest to the rational a / b (in quanta), sign handled apart
FloatOf(a, b) ==
    LET s == IF a < 0 THEN -1 ELSE 1
        m == Abs(a)
        e == Exponent(m, b, 0)
    IN  s * RoundHalfEven(m, b * Pow2(e)) * Pow2(e)

\* Python float operators: x * y with x an int (a share count), x + y,
\* x - y, x / n with n an int
FMul(n, x) == FloatOf(n * x, 1)
FAdd(x, y) == FloatOf(x + y, 1)
FSub(x, y) == FloatOf(x - y, 1)
FDiv(x, n) == FloatOf(x, n)


\* ------------------------------------------------------------------ inputs
Threads == {1, 2}
Tickers == {"AAPL", "MSFT"}
\* quantities a caller may pass: 0 is rejected by the validation
Quantities == {0, 1, 2}
\* the quantity arguments: the ints above, and the float 2.0
QuantityArgs ==
    {[value |-> q, is_int |-> TRUE] : q \in Quantities}
        \cup {[value |-> 2, is_int |-> FALSE]}
\* prices the oracle may report, whole dollars
Prices == {1 * Unit, 2 * Unit}
\* balances a persisted ledger may hold when the program starts
StartBalances == {5 * Unit}
\* account.initial_balance, written once when the ledger file is created
initial_balance == 5 * Unit
\* time.time() when the program starts (seconds, far above CACHE_TTL)
StartTime == 20 * CACHE_TTL
\* how far time.time() may move between two steps: just inside the cache's
\* time-to-live, or to its end
TickSteps == {CACHE_TTL - 1, CACHE_TTL}

\* Python None / a present value
None == <<>>
Some(v) == <<v>>

\* ------------------------------------------------------------------- state
VARIABLES
    balance,          \* account.balance, the one row of table account
    positions,        \* table positions: rows [ticker, quantity, average_price]
    trades,           \* table trades, in insertion order
    account_cache,    \* database._account_cache
    positions_cache,  \* database._positions_cache
    now,              \* time.time()
    pc,               \* per thread: where its call stands
    loc,              \* per thread: the locals of the running call
    result,           \* per thread: what the finished call returned
    pre,              \* per thread: the ledger as it was when the call began
    calls,            \* number of calls begun
    faults,           \* number of storage writes that failed
    ghost             \* bookkeeping of what the successful calls traded
                      \* and of the pnl the sells returned

dbVars == <<balance, positions, trades>>
cacheVars == <<account_cache, positions_cache>>
vars == <<balance, positions, trades, account_cache, positions_cache, now,
          pc, loc, result, pre, calls, faults, ghost>>

\* the oracle was not asked
NotAsked == [kind |-> "", price |-> 0]

NoLocals ==
    [op |-> "none", ticker |-> "", quantity |-> 0, is_int |-> TRUE, attempts |-> 0,
     latest_price |-> 0, amount |-> 0, current_balance |-> 0,
     new_balance |-> 0, current_qty |-> 0, avg_price |-> 0,
     new_quantity |-> 0, new_average_price |-> 0, current_time |-> 0,
     fetched |-> None, arg |-> 0, ret |-> "", ret_fail |-> "",
     lookups |-> [k \in Tickers |-> NotAsked], io |-> <<>>, exceptions |-> 0]

\* the locals after a store write has returned ok (True / False) to the trade
Returned(l, call, ok) == [l EXCEPT !.io = Append(@, [call |-> call, ok |-> ok])]

\* the dict a call returns; the fields a failure does not carry are 0
Result(success, message, price, amount, pnl, new_balance) ==
    [success |-> success, message |-> message, price |-> price,
     amount |-> amount, pnl |-> pnl, new_balance |-> new_balance,
     value |-> 0, rows |-> {}]

Failure(message) == Result(FALSE, message, 0, 0, 0, 0)

\* what the two ledger reads return to their caller
BalanceRead(v) == [Result(TRUE, "balance", 0, 0, 0, 0) EXCEPT !.value = v]
PositionsRead(df) == [Result(TRUE, "positions", 0, 0, 0, 0) EXCEPT !.rows = df]
\* what get_portfolio_value returns to its caller
ValueRead(v) == [Result(TRUE, "value", 0, 0, 0, 0) EXCEPT !.value = v]

NoResult == Failure("")

MsgInvalidQuantity == "Quantity must be a positive integer."
MsgNoPrice == "Could not fetch price."
MsgInsufficientFunds == "Insufficient funds."
MsgNotEnoughShares == "Not enough shares to sell."
MsgBalanceError == "Database error updating balance."
MsgPositionError == "Database error updating position."
MsgBought == "Bought"
MsgSold == "Sold"

Ledger == [balance |-> balance, positions |-> positions, trades |-> trades]
NoLedger == [balance |-> 0, positions |-> {}, trades |-> <<>>]

\* the program starts on the ledger file a previous run left: `rows` are its
\* open positions; both caches are empty
InitWith(rows) ==
    /\ balance \in StartBalances
    /\ positions = rows
    /\ trades = <<>>
    /\ account_cache = [timestamp |-> 0, data |-> None]
    /\ positions_cache = [timestamp |-> 0, data |-> None]
    /\ now = StartTime
    /\ pc = [t \in Threads |-> "idle"]
    /\ loc = [t \in Threads |-> NoLocals]
    /\ result = [t \in Threads |-> NoResult]
    /\ pre = [t \in Threads |-> NoLedger]
    /\ calls = 0
    /\ faults = 0
    /\ ghost = [start |-> balance,
                cash |-> 0,
                qty |-> [k \in Tickers |->
                           IF \E r \in rows : r.ticker = k
                           THEN (CHOOSE r \in rows : r.ticker = k).quantity ELSE 0],
                paid |-> [k \in Tickers |-> 0],
                buys |-> [k \in Tickers |-> 0],
                only_buys |-> [k \in Tickers |-> ~ \E r \in rows : r.ticker = k],
                pnl |-> 0,
                all_ok |-> TRUE]

\* a fresh ledger: no position, no trade
Init == InitWith({})

\* the ledger file as initialize_database creates it, in whole dollars:
\* balance 100000.00, no position, no trade
NewAccountBalance == 100000
InitNewAccount ==
    /\ balance = NewAccountBalance
    /\ positions = {}
    /\ trades = <<>>
    /\ account_cache = [timestamp |-> 0, data |-> None]
    /\ positions_cache = [timestamp |-> 0, data |-> None]
    /\ now = StartTime
    /\ pc = [t \in Threads |-> "idle"]
    /\ loc = [t \in Threads |-> NoLocals]
    /\ result = [t \in Threads |-> NoResult]
    /\ pre = [t \in Threads |-> NoLedger]
    /\ calls = 0
    /\ faults = 0
    /\ ghost = [start |-> balance,
                cash |-> 0,
                qty |-> [k \in Tickers |-> 0],
                paid |-> [k \in Tickers |-> 0],
                buys |-> [k \in Tickers |-> 0],
                only_buys |-> [k \in Tickers |-> TRUE],
                pnl |-> 0,
                all_ok |-> TRUE]

\* a ledger that already holds shares
HeldRows == {[ticker |-> "AAPL", quantity |-> 2, average_price |-> 1 * Unit]}
InitHeld == InitWith(HeldRows)

\* ------------------------------------------------------- ledger store reads
\* database.get_position: the row's (quantity, average_price), (0, 0.0) if none
get_position(ticker) ==
    IF \E r \in positions : r.ticker = ticker
    THEN LET r == CHOOSE r \in positions : r.ticker = ticker
         IN  <<r.quantity, r.average_price>>
    ELSE <<0, 0>>

\* faulty variant: a filled cache never expires and is never invalidated
CacheHitForever(cache, current_time) == cache.data # None

\* the cache test of get_account_balance and get_all_positions
CacheHit(cache, current_time) ==
    current_time - cache.timestamp < CACHE_TTL /\ cache.data # None

\* what get_account_balance() returns to a call that enters at current_time and
\* runs alone: the cached value on a hit, else the stored balance
get_account_balance(current_time) ==
    IF CacheHit(account_cache, current_time) THEN account_cache.data[1] ELSE balance

\* what get_all_positions() returns to a call that enters at current_time and
\* runs alone: a copy of the cached frame on a hit, else the table's rows
get_all_positions(current_time) ==
    IF CacheHit(positions_cache, current_time) THEN positions_cache.data[1]
    ELSE positions

\* faulty variant: update_position keeps the row of an emptied position
PositionRowsKeepsEmpty(rows, ticker, new_quantity, new_average_price) ==
    LET others == {r \in rows : r.ticker # ticker}
    IN  IF new_quantity >= 0
        THEN others \cup {[ticker |-> ticker, quantity |-> new_quantity,
                           average_price |-> new_average_price]}
        ELSE others

\* the rows update_position leaves in the table
PositionRows(rows, ticker, new_quantity, new_average_price) ==
    LET others == {r \in rows : r.ticker # ticker}
    IN  IF new_quantity > 0
        THEN others \cup {[ticker |-> ticker, quantity |-> new_quantity,
                           average_price |-> new_average_price]}
        ELSE others

\* the row log_trade inserts; AUTOINCREMENT numbers the rows 1, 2, ...
TradeRow(ticker, order_type, quantity, price) ==
    [id |-> Len(trades) + 1, ticker |-> ticker, order_type |-> order_type,
     quantity |-> quantity, price |-> price, total_cost |-> FMul(quantity, price)]

\* ---------------------------------------------------------- trading engine
\* faulty variant: the held shares' cost is taken as one share's
NewAveragePriceUnweighted(current_qty, current_avg_price, cost, new_quantity) ==
    FDiv(FAdd(current_avg_price, cost), new_quantity)

\* faulty variant: the position takes the price of the last fill
NewAveragePriceOfLastFill(current_qty, current_avg_price, cost, new_quantity) ==
    FDiv(cost, new_quantity - current_qty)

\* execute_buy's weighted-average cost of the position after the buy
NewAveragePrice(current_qty, current_avg_price, cost, new_quantity) ==
    FDiv(FAdd(FMul(current_qty, current_avg_price), cost), new_quantity)

\* faulty variant: execute_buy without the funds check
InsufficientFundsUnchecked(cost, current_balance) == FALSE

InsufficientFunds(cost, current_balance) == cost > current_balance

\* faulty variant: the whole cost basis is spread over the remaining shares
RemainingPositionReaveraged(current_qty, avg_price, quantity) ==
    <<current_qty - quantity,
      IF current_qty > quantity
      THEN FDiv(FMul(current_qty, avg_price), current_qty - quantity)
      ELSE avg_price>>

\* execute_sell's position after the sell: (new_quantity, average price)
RemainingPosition(current_qty, avg_price, quantity) ==
    <<current_qty - quantity, avg_price>>

\* what the market-data lookup inside sd.get_latest_price may do: raise,
\* find no price, or find one
Lookups ==
    {[kind |-> "exception", price |-> 0], [kind |-> "empty", price |-> 0]}
        \cup {[kind |-> "price", price |-> p] : p \in Prices}

\* sd.get_latest_price: the price, None when there is none or the lookup raised
get_latest_price(lookup) ==
    IF lookup.kind = "price" THEN Some(lookup.price) ELSE None

\* sd.get_cached_price(ticker): the oracle's answer, a price or None
get_cached_price(lookup) == get_latest_price(lookup)

\* the locals once the oracle was asked about ticker and the lookup did `lookup`
Asked(l, ticker, lookup) == [l EXCEPT !.lookups[ticker] = lookup]

\* faulty variant: the shares check is off by one
NotEnoughSharesOffByOne(quantity, current_qty) == quantity > current_qty + 1

NotEnoughShares(quantity, current_qty) == quantity > current_qty

\* faulty variant: the type of the quantity is not looked at
InvalidQuantityOfAnyType(quantity, is_int) == quantity <= 0

\* "not isinstance(quantity, int) or quantity <= 0"
InvalidQuantity(quantity, is_int) == ~ is_int \/ quantity <= 0


\* ------------------------------------------------------------ control flow
Goto(t, label, l) ==
    /\ pc' = [pc EXCEPT ![t] = label]
    /\ loc' = [loc EXCEPT ![t] = l]

\* what is kept of the locals l once the call has ended: the arguments, the
\* fill, the number of exceptions raised in the call and of those the retry
\* wrapper caught, the oracle's kind of answer, what the store writes of the
\* last attempt returned and the frame a valuation summed
Kept(l) ==
    [NoLocals EXCEPT !.op = l.op, !.ticker = l.ticker, !.quantity = l.quantity,
                     !.is_int = l.is_int,
                     !.latest_price = l.latest_price, !.amount = l.amount,
                     !.attempts = l.attempts, !.lookups = l.lookups, !.io = l.io,
                     !.exceptions = l.exceptions,
                     !.fetched = IF l.op = "value" THEN l.fetched ELSE None]

\* the call returns res, its locals being l
FinishWith(t, l, res) ==
    /\ pc' = [pc EXCEPT ![t] = "done"]
    /\ loc' = [loc EXCEPT ![t] = Kept(l)]
    /\ result' = [result EXCEPT ![t] = res]

Finish(t, res) == FinishWith(t, loc[t], res)

\* faulty variant: a failure result is treated by the wrapper like an
\* exception
FinishFailedRetried(t, message) ==
    /\ Goto(t, "except", loc[t])
    /\ UNCHANGED <<result, ghost>>

FinishFailed(t, message) ==
    /\ Finish(t, Failure(message))
    /\ ghost' = [ghost EXCEPT !.all_ok = FALSE, !.cash = 0]

FirstLabel(op) ==
    CASE op = "buy" -> "buy_validate"
      [] op = "sell" -> "sell_validate"
      [] op = "balance" -> "gab_begin"
      [] op = "positions" -> "gap_begin"
      [] op = "value" -> "gap_begin"

\* a caller invokes execute_buy / execute_sell (through the retry wrapper)
CallTrade(t, op, ticker, quantity) ==
    /\ pc[t] = "idle"
    /\ calls' = calls + 1
    /\ pre' = [pre EXCEPT ![t] = Ledger]
    /\ Goto(t, FirstLabel(op), [NoLocals EXCEPT !.op = op, !.ticker = ticker,
                                                !.quantity = quantity.value,
                                                !.is_int = quantity.is_int])
    /\ UNCHANGED <<dbVars, cacheVars, now, result, faults, ghost>>

\* a caller invokes get_account_balance() / get_all_positions()
CallRead(t, op) ==
    /\ pc[t] = "idle"
    /\ calls < MaxCalls
    /\ calls' = calls + 1
    /\ pre' = [pre EXCEPT ![t] = Ledger]
    /\ Goto(t, FirstLabel(op), [NoLocals EXCEPT !.op = op, !.ret = "ret_balance"])
    /\ UNCHANGED <<dbVars, cacheVars, now, result, faults, ghost>>

\* the caller takes the result, or the exception the call ended with
Return(t) ==
    /\ pc[t] \in {"done", "raised"}
    /\ pc' = [pc EXCEPT ![t] = "idle"]
    /\ loc' = [loc EXCEPT ![t] = NoLocals]
    /\ result' = [result EXCEPT ![t] = NoResult]
    /\ pre' = [pre EXCEPT ![t] = NoLedger]
    /\ UNCHANGED <<dbVars, cacheVars, now, calls, faults, ghost>>

\* time.time() advances.  The clock is read only on entry to
\* get_account_balance and get_all_positions, so letting time pass just before
\* such an entry covers every moment at which it could have passed.
Tick ==
    /\ \E t \in Threads : pc[t] \in {"gab_begin", "gap_begin"}
    /\ \E d \in TickSteps :
          /\ now + d <= StartTime + MaxElapsed
          /\ now' = now + d
    /\ UNCHANGED <<dbVars, cacheVars, pc, loc, result, pre, calls, faults, ghost>>

\* ------------------------------------------- database.get_account_balance
GabBegin(t) ==
    /\ pc[t] = "gab_begin"
    /\ IF CacheHit(account_cache, now)
       THEN Goto(t, loc[t].ret, [loc[t] EXCEPT !.current_time = now,
                                   !.current_balance = account_cache.data[1]])
       ELSE Goto(t, "gab_query", [loc[t] EXCEPT !.current_time = now])
    /\ UNCHANGED <<dbVars, cacheVars, now, result, pre, calls, faults, ghost>>

GabQuery(t) ==
    /\ pc[t] = "gab_query"
    /\ Goto(t, "gab_fill_timestamp", [loc[t] EXCEPT !.fetched = Some(balance)])
    /\ UNCHANGED <<dbVars, cacheVars, now, result, pre, calls, faults, ghost>>

GabFillTimestamp(t) ==
    /\ pc[t] = "gab_fill_timestamp"
    /\ account_cache' = [account_cache EXCEPT !.timestamp = loc[t].current_time]
    /\ Goto(t, "gab_fill_data", loc[t])
    /\ UNCHANGED <<dbVars, positions_cache, now, result, pre, calls, faults, ghost>>

GabFillData(t) ==
    /\ pc[t] = "gab_fill_data"
    /\ account_cache' = [account_cache EXCEPT !.data = loc[t].fetched]
    /\ Goto(t, loc[t].ret, [loc[t] EXCEPT !.current_balance = loc[t].fetched[1],
                                          !.fetched = None])
    /\ UNCHANGED <<dbVars, positions_cache, now, result, pre, calls, faults, ghost>>

RetBalance(t) ==
    /\ pc[t] = "ret_balance"
    /\ Finish(t, BalanceRead(loc[t].current_balance))
    /\ UNCHANGED <<dbVars, cacheVars, now, pre, calls, faults, ghost>>

\* ---------------------------------------------- database.get_all_positions
\* get_all_positions returns df: to the caller, or into get_portfolio_value
GapReturn(t, df) ==
    IF loc[t].op = "positions"
    THEN Finish(t, PositionsRead(df))
    ELSE /\ Goto(t, "value_sum", [loc[t] EXCEPT !.fetched = Some(df)])
         /\ UNCHANGED result

GapBegin(t) ==
    /\ pc[t] = "gap_begin"
    /\ IF CacheHit(positions_cache, now)
       THEN GapReturn(t, positions_cache.data[1])
       ELSE /\ Goto(t, "gap_query", [loc[t] EXCEPT !.current_time = now])
            /\ UNCHANGED result
    /\ UNCHANGED <<dbVars, cacheVars, now, pre, calls, faults, ghost>>

GapQuery(t) ==
    /\ pc[t] = "gap_query"
    /\ Goto(t, "gap_fill_timestamp", [loc[t] EXCEPT !.fetched = Some(positions)])
    /\ UNCHANGED <<dbVars, cacheVars, now, result, pre, calls, faults, ghost>>

GapFillTimestamp(t) ==
    /\ pc[t] = "gap_fill_timestamp"
    /\ positions_cache' = [positions_cache EXCEPT !.timestamp = loc[t].current_time]
    /\ Goto(t, "gap_fill_data", loc[t])
    /\ UNCHANGED <<dbVars, account_cache, now, result, pre, calls, faults, ghost>>

GapFillData(t) ==
    /\ pc[t] = "gap_fill_data"
    /\ positions_cache' = [positions_cache EXCEPT !.data = loc[t].fetched]
    /\ GapReturn(t, loc[t].fetched[1])
    /\ UNCHANGED <<dbVars, account_cache, now, pre, calls, faults, ghost>>

\* ------------------------------------ trading_logic.get_portfolio_value
\* faulty variant: a row without a price counts for nothing
PositionValueDropsUnpriced(row, latest_price) ==
    IF latest_price # None
    THEN FMul(row.quantity, latest_price[1])
    ELSE 0

\* the value of one row: at the oracle's price, at average_price without one
PositionValue(row, latest_price) ==
    IF latest_price # None
    THEN FMul(row.quantity, latest_price[1])
    ELSE FMul(row.quantity, row.average_price)

\* total_value after the loop over the rows, answers[ticker] being what the
\* oracle said about each
RECURSIVE TotalValue(_, _)
TotalValue(rows, answers) ==
    IF rows = {} THEN 0
    ELSE LET row == CHOOSE r \in rows : TRUE
         IN  FAdd(TotalValue(rows \ {row}, answers),
                  PositionValue(row, answers[row.ticker]))

\* the loop of get_portfolio_value over the frame get_all_positions returned
ValueSum(t) ==
    /\ pc[t] = "value_sum"
    /\ LET rows == loc[t].fetched[1]
       IN  \E lookup \in [{r.ticker : r \in rows} -> Lookups] :
              LET answers == [k \in DOMAIN lookup |-> get_cached_price(lookup[k])]
                  l == [loc[t] EXCEPT !.lookups =
                           [k \in Tickers |->
                               IF k \in DOMAIN lookup THEN lookup[k] ELSE NotAsked]]
              IN  FinishWith(t, l, ValueRead(TotalValue(rows, answers)))
    /\ UNCHANGED <<dbVars, cacheVars, now, pre, calls, faults, ghost>>

\* ---------------------------------------- database.update_account_balance
\* UPDATE + commit
UabCommit(t) ==
    /\ pc[t] = "uab_commit"
    /\ balance' = loc[t].arg
    /\ Goto(t, "uab_invalidate", loc[t])
    /\ UNCHANGED <<positions, trades, cacheVars, now, result, pre, calls, faults, ghost>>

\* sqlite3.Error: nothing written, False returned
UabCommitFails(t) ==
    /\ pc[t] = "uab_commit"
    /\ Goto(t, loc[t].ret_fail, Returned(loc[t], "update_account_balance", FALSE))
    /\ UNCHANGED <<dbVars, cacheVars, now, result, pre, calls, ghost>>

\* faulty variant: update_account_balance leaves the cache as it is
UabKeepsCache(t) ==
    /\ pc[t] = "uab_invalidate"
    /\ Goto(t, loc[t].ret, Returned(loc[t], "update_account_balance", TRUE))
    /\ UNCHANGED <<dbVars, cacheVars, now, result, pre, calls, faults, ghost>>

UabInvalidate(t) ==
    /\ pc[t] = "uab_invalidate"
    /\ account_cache' = [account_cache EXCEPT !.timestamp = 0]
    /\ Goto(t, loc[t].ret, Returned(loc[t], "update_account_balance", TRUE))
    /\ UNCHANGED <<dbVars, positions_cache, now, result, pre, calls, faults, ghost>>

\* ------------------------------------------------ database.update_position
\* REPLACE INTO / DELETE + commit
UpCommit(t) ==
    /\ pc[t] = "up_commit"
    /\ positions' = PositionRows(positions, loc[t].ticker,
                                 loc[t].new_quantity, loc[t].new_average_price)
    /\ Goto(t, "up_invalidate", loc[t])
    /\ UNCHANGED <<balance, trades, cacheVars, now, result, pre, calls, faults, ghost>>

\* sqlite3.Error: nothing written, False returned
UpCommitFails(t) ==
    /\ pc[t] = "up_commit"
    /\ Goto(t, "revert", Returned(loc[t], "update_position", FALSE))
    /\ UNCHANGED <<dbVars, cacheVars, now, result, pre, calls, ghost>>

\* faulty variant: update_position leaves the cache as it is
UpKeepsCache(t) ==
    /\ pc[t] = "up_invalidate"
    /\ Goto(t, loc[t].ret, Returned(loc[t], "update_position", TRUE))
    /\ UNCHANGED <<dbVars, cacheVars, now, result, pre, calls, faults, ghost>>

UpInvalidate(t) ==
    /\ pc[t] = "up_invalidate"
    /\ positions_cache' = [positions_cache EXCEPT !.timestamp = 0]
    /\ Goto(t, loc[t].ret, Returned(loc[t], "update_position", TRUE))
    /\ UNCHANGED <<dbVars, account_cache, now, result, pre, calls, faults, ghost>>


\* ------------------------------------------- trading_logic.execute_buy
BuyValidate(t) ==
    /\ pc[t] = "buy_validate"
    /\ IF InvalidQuantity(loc[t].quantity, loc[t].is_int)
       THEN FinishFailed(t, MsgInvalidQuantity)
       ELSE /\ Goto(t, "buy_price", loc[t])
            /\ UNCHANGED <<result, ghost>>
    /\ UNCHANGED <<dbVars, cacheVars, now, pre, calls, faults>>

\* faulty variant: without a price the buy fills at the position's average
BuyPriceFallsBack(t) ==
    /\ pc[t] = "buy_price"
    /\ \E lookup \in Lookups :
          LET latest_price == get_cached_price(lookup)
              l == Asked(loc[t], loc[t].ticker, lookup)
              fill == IF latest_price = None THEN get_position(loc[t].ticker)[2]
                      ELSE latest_price[1]
          IN  Goto(t, "gab_begin",
                   [l EXCEPT !.latest_price = fill,
                             !.amount = FMul(loc[t].quantity, fill),
                             !.ret = "buy_check"])
    /\ UNCHANGED <<dbVars, cacheVars, now, result, pre, calls, faults, ghost>>

\* faulty variant: the lookup's exception is raised into execute_buy
BuyPriceRaises(t) ==
    /\ pc[t] = "buy_price"
    /\ \E lookup \in Lookups :
          LET latest_price == get_cached_price(lookup)
              l == Asked(loc[t], loc[t].ticker, lookup)
          IN
          IF lookup.kind = "exception"
          THEN /\ Goto(t, "except", [l EXCEPT !.exceptions = @ + 1])
               /\ UNCHANGED <<result, ghost>>
          ELSE IF latest_price = None
          THEN /\ FinishWith(t, l, Failure(MsgNoPrice))
               /\ ghost' = [ghost EXCEPT !.all_ok = FALSE, !.cash = 0]
          ELSE /\ Goto(t, "gab_begin",
                       [l EXCEPT !.latest_price = latest_price[1],
                                 !.amount = FMul(loc[t].quantity, latest_price[1]),
                                 !.ret = "buy_check"])
               /\ UNCHANGED <<result, ghost>>
    /\ UNCHANGED <<dbVars, cacheVars, now, pre, calls, faults>>

\* execute_buy asks the oracle, whose lookup does `lookup`
BuyPriceOf(t, lookup) ==
    /\ pc[t] = "buy_price"
    /\ LET latest_price == get_cached_price(lookup)
           l == Asked(loc[t], loc[t].ticker, lookup)
       IN
       IF latest_price = None
       THEN /\ FinishWith(t, l, Failure(MsgNoPrice))
            /\ ghost' = [ghost EXCEPT !.all_ok = FALSE, !.cash = 0]
       ELSE /\ Goto(t, "gab_begin",
                    [l EXCEPT !.latest_price = latest_price[1],
                              !.amount = FMul(loc[t].quantity, latest_price[1]),
                              !.ret = "buy_check"])
            /\ UNCHANGED <<result, ghost>>
    /\ UNCHANGED <<dbVars, cacheVars, now, pre, calls, faults>>

BuyPrice(t) == \E lookup \in Lookups : BuyPriceOf(t, lookup)

\* faulty variant: the buy goes ahead whatever the balance
BuyCheckSkipped(t) ==
    /\ pc[t] = "buy_check"
    /\ LET new_balance == FSub(loc[t].current_balance, loc[t].amount)
       IN  Goto(t, "uab_commit",
                [loc[t] EXCEPT !.new_balance = new_balance,
                               !.arg = new_balance,
                               !.ret = "buy_get_position",
                               !.ret_fail = "fail_balance"])
    /\ UNCHANGED <<dbVars, cacheVars, now, result, pre, calls, faults, ghost>>

BuyCheck(t) ==
    /\ pc[t] = "buy_check"
    /\ IF InsufficientFunds(loc[t].amount, loc[t].current_balance)
       THEN FinishFailed(t, MsgInsufficientFunds)
       ELSE LET new_balance == FSub(loc[t].current_balance, loc[t].amount)
            IN  /\ Goto(t, "uab_commit",
                        [loc[t] EXCEPT !.new_balance = new_balance,
                                       !.arg = new_balance,
                                       !.ret = "buy_get_position",
                                       !.ret_fail = "fail_balance"])
                /\ UNCHANGED <<result, ghost>>
    /\ UNCHANGED <<dbVars, cacheVars, now, pre, calls, faults>>

BuyGetPosition(t) ==
    /\ pc[t] = "buy_get_position"
    /\ LET current_qty == get_position(loc[t].ticker)[1]
           current_avg_price == get_position(loc[t].ticker)[2]
           new_quantity == current_qty + loc[t].quantity
       IN  Goto(t, "up_commit",
                [loc[t] EXCEPT !.current_qty = current_qty,
                               !.avg_price = current_avg_price,
                               !.new_quantity = new_quantity,
                               !.new_average_price =
                                   NewAveragePrice(current_qty, current_avg_price,
                                                   loc[t].amount, new_quantity),
                               !.ret = "buy_log"])
    /\ UNCHANGED <<dbVars, cacheVars, now, result, pre, calls, faults, ghost>>

BuyResult(t) ==
    Result(TRUE, MsgBought, loc[t].latest_price, loc[t].amount, 0, loc[t].new_balance)

BuyGhost(t) ==
    [ghost EXCEPT !.cash = @ - loc[t].quantity * loc[t].latest_price,
                  !.qty[loc[t].ticker] = @ + loc[t].quantity,
                  !.paid[loc[t].ticker] = @ + loc[t].quantity * loc[t].latest_price,
                  !.buys[loc[t].ticker] = @ + 1]

\* faulty variant: the log keeps only the newest record
BuyLogOverwrites(t) ==
    /\ pc[t] = "buy_log"
    /\ trades' = <<TradeRow(loc[t].ticker, "BUY", loc[t].quantity, loc[t].latest_price)>>
    /\ FinishWith(t, Returned(loc[t], "log_trade", TRUE), BuyResult(t))
    /\ ghost' = BuyGhost(t)
    /\ UNCHANGED <<balance, positions, cacheVars, now, pre, calls, faults>>

\* db.log_trade inserts the row; the call returns success
BuyLog(t) ==
    /\ pc[t] = "buy_log"
    /\ trades' = Append(trades, TradeRow(loc[t].ticker, "BUY", loc[t].quantity,
                                         loc[t].latest_price))
    /\ FinishWith(t, Returned(loc[t], "log_trade", TRUE), BuyResult(t))
    /\ ghost' = BuyGhost(t)
    /\ UNCHANGED <<balance, positions, cacheVars, now, pre, calls, faults>>

\* faulty variant: a failed log append makes the buy report a failure
BuyLogFailsReported(t) ==
    /\ pc[t] = "buy_log"
    /\ FinishWith(t, Returned(loc[t], "log_trade", FALSE), Failure("Database error logging trade."))
    /\ ghost' = BuyGhost(t)
    /\ UNCHANGED <<dbVars, cacheVars, now, pre, calls>>

\* db.log_trade fails (sqlite3.Error): a warning, the call returns success
BuyLogFails(t) ==
    /\ pc[t] = "buy_log"
    /\ FinishWith(t, Returned(loc[t], "log_trade", FALSE), BuyResult(t))
    /\ ghost' = BuyGhost(t)
    /\ UNCHANGED <<dbVars, cacheVars, now, pre, calls>>

\* ------------------------------------------ trading_logic.execute_sell
SellValidate(t) ==
    /\ pc[t] = "sell_validate"
    /\ IF InvalidQuantity(loc[t].quantity, loc[t].is_int)
       THEN FinishFailed(t, MsgInvalidQuantity)
       ELSE /\ Goto(t, "sell_get_position", loc[t])
            /\ UNCHANGED <<result, ghost>>
    /\ UNCHANGED <<dbVars, cacheVars, now, pre, calls, faults>>

SellGetPosition(t) ==
    /\ pc[t] = "sell_get_position"
    /\ LET current_qty == get_position(loc[t].ticker)[1]
           avg_price == get_position(loc[t].ticker)[2]
       IN  IF NotEnoughShares(loc[t].quantity, current_qty)
           THEN FinishFailed(t, MsgNotEnoughShares)
           ELSE /\ Goto(t, "sell_price", [loc[t] EXCEPT !.current_qty = current_qty,
                                                        !.avg_price = avg_price])
                /\ UNCHANGED <<result, ghost>>
    /\ UNCHANGED <<dbVars, cacheVars, now, pre, calls, faults>>

\* execute_sell asks the oracle, whose lookup does `lookup`
SellPriceOf(t, lookup) ==
    /\ pc[t] = "sell_price"
    /\ LET latest_price == get_cached_price(lookup)
           l == Asked(loc[t], loc[t].ticker, lookup)
       IN
       IF latest_price = None
       THEN /\ FinishWith(t, l, Failure(MsgNoPrice))
            /\ ghost' = [ghost EXCEPT !.all_ok = FALSE, !.cash = 0]
       ELSE /\ Goto(t, "gab_begin",
                    [l EXCEPT !.latest_price = latest_price[1],
                              !.amount = FMul(loc[t].quantity, latest_price[1]),
                              !.ret = "sell_credit"])
            /\ UNCHANGED <<result, ghost>>
    /\ UNCHANGED <<dbVars, cacheVars, now, pre, calls, faults>>

SellPrice(t) == \E lookup \in Lookups : SellPriceOf(t, lookup)

SellCredit(t) ==
    /\ pc[t] = "sell_credit"
    /\ LET new_balance == FAdd(loc[t].current_balance, loc[t].amount)
       IN  Goto(t, "uab_commit",
                [loc[t] EXCEPT !.new_balance = new_balance,
                               !.arg = new_balance,
                               !.ret = "sell_update_position",
                               !.ret_fail = "fail_balance"])
    /\ UNCHANGED <<dbVars, cacheVars, now, result, pre, calls, faults, ghost>>

SellUpdatePosition(t) ==
    /\ pc[t] = "sell_update_position"
    /\ LET remaining == RemainingPosition(loc[t].current_qty, loc[t].avg_price,
                                          loc[t].quantity)
       IN  Goto(t, "up_commit", [loc[t] EXCEPT !.new_quantity = remaining[1],
                                               !.new_average_price = remaining[2],
                                               !.ret = "sell_log"])
    /\ UNCHANGED <<dbVars, cacheVars, now, result, pre, calls, faults, ghost>>

\* faulty variant: the whole proceeds are reported as pnl
SellResultPnlIsProceeds(t) ==
    Result(TRUE, MsgSold, loc[t].latest_price, loc[t].amount, loc[t].amount,
           loc[t].new_balance)

\* faulty variant: the cost basis is taken from the position as stored after
\* the sell
SellResultOnStoredPosition(t) ==
    LET cost_basis_for_sold_shares ==
            FMul(loc[t].quantity, get_position(loc[t].ticker)[2])
        pnl_trade == FSub(loc[t].amount, cost_basis_for_sold_shares)
    IN  Result(TRUE, MsgSold, loc[t].latest_price, loc[t].amount, pnl_trade,
               loc[t].new_balance)

SellResult(t) ==
    LET cost_basis_for_sold_shares == FMul(loc[t].quantity, loc[t].avg_price)
        pnl_trade == FSub(loc[t].amount, cost_basis_for_sold_shares)
    IN  Result(TRUE, MsgSold, loc[t].latest_price, loc[t].amount, pnl_trade,
               loc[t].new_balance)

SellGhost(t) ==
    [ghost EXCEPT !.cash = @ + loc[t].quantity * loc[t].latest_price,
                  !.qty[loc[t].ticker] = @ - loc[t].quantity,
                  !.paid[loc[t].ticker] = 0,
                  !.buys[loc[t].ticker] = 0,
                  !.pnl = @ + SellResult(t).pnl,
                  !.only_buys[loc[t].ticker] = FALSE]

\* faulty variant: the sell is logged as a buy
SellLogAsBuy(t) ==
    /\ pc[t] = "sell_log"
    /\ trades' = Append(trades, TradeRow(loc[t].ticker, "BUY", loc[t].quantity,
                                         loc[t].latest_price))
    /\ FinishWith(t, Returned(loc[t], "log_trade", TRUE), SellResult(t))
    /\ ghost' = SellGhost(t)
    /\ UNCHANGED <<balance, positions, cacheVars, now, pre, calls, faults>>

SellLog(t) ==
    /\ pc[t] = "sell_log"
    /\ trades' = Append(trades, TradeRow(loc[t].ticker, "SELL", loc[t].quantity,
                                         loc[t].latest_price))
    /\ FinishWith(t, Returned(loc[t], "log_trade", TRUE), SellResult(t))
    /\ ghost' = SellGhost(t)
    /\ UNCHANGED <<balance, positions, cacheVars, now, pre, calls, faults>>

SellLogFails(t) ==
    /\ pc[t] = "sell_log"
    /\ FinishWith(t, Returned(loc[t], "log_trade", FALSE), SellResult(t))
    /\ ghost' = SellGhost(t)
    /\ UNCHANGED <<dbVars, cacheVars, now, pre, calls>>

\* --------------------------------------- the failure exits of both trades
\* faulty variant: the trade goes on after the balance write failed
FailBalanceGoesOn(t) ==
    /\ pc[t] = "fail_balance"
    /\ Goto(t, IF loc[t].op = "buy" THEN "buy_get_position" ELSE "sell_update_position",
             loc[t])
    /\ UNCHANGED <<dbVars, cacheVars, now, result, pre, calls, faults, ghost>>

\* "if not db.update_account_balance(new_balance): return ..."
FailBalance(t) ==
    /\ pc[t] = "fail_balance"
    /\ FinishFailed(t, MsgBalanceError)
    /\ UNCHANGED <<dbVars, cacheVars, now, pre, calls, faults>>

\* faulty variant: the compensation writes the new balance once more
RevertToNewBalance(t) ==
    /\ pc[t] = "revert"
    /\ Goto(t, "uab_commit", [loc[t] EXCEPT !.arg = loc[t].new_balance,
                                            !.ret = "fail_position",
                                            !.ret_fail = "fail_position"])
    /\ UNCHANGED <<dbVars, cacheVars, now, result, pre, calls, faults, ghost>>

\* faulty variant: a failed compensation is tried again
RevertUntilWritten(t) ==
    /\ pc[t] = "revert"
    /\ Goto(t, "uab_commit", [loc[t] EXCEPT !.arg = loc[t].current_balance,
                                            !.ret = "fail_position",
                                            !.ret_fail = "revert"])
    /\ UNCHANGED <<dbVars, cacheVars, now, result, pre, calls, faults, ghost>>

\* update_position returned False: db.update_account_balance(current_balance),
\* whose own outcome is not looked at
Revert(t) ==
    /\ pc[t] = "revert"
    /\ Goto(t, "uab_commit", [loc[t] EXCEPT !.arg = loc[t].current_balance,
                                            !.ret = "fail_position",
                                            !.ret_fail = "fail_position"])
    /\ UNCHANGED <<dbVars, cacheVars, now, result, pre, calls, faults, ghost>>

FailPosition(t) ==
    /\ pc[t] = "fail_position"
    /\ FinishFailed(t, MsgPositionError)
    /\ UNCHANGED <<dbVars, cacheVars, now, pre, calls, faults>>

\* ------------------------------------------------------------ utils.retry
\* the SELECT of get_account_balance raises sqlite3.Error; the function has no
\* handler, so the exception leaves it and the trade that called it
GabQueryRaises(t) ==
    /\ pc[t] = "gab_query"
    /\ loc[t].op \in {"buy", "sell"}
    /\ Goto(t, "except", [loc[t] EXCEPT !.exceptions = @ + 1])
    /\ UNCHANGED <<dbVars, cacheVars, now, result, pre, calls, ghost>>

\* the SELECT of get_position raises sqlite3.Error: no handler there either
GetPositionRaises(t) ==
    /\ pc[t] \in {"buy_get_position", "sell_get_position"}
    /\ Goto(t, "except", [loc[t] EXCEPT !.exceptions = @ + 1])
    /\ UNCHANGED <<dbVars, cacheVars, now, result, pre, calls, ghost>>

\* the locals with which the wrapper runs the function again
NextAttempt(l) ==
    [NoLocals EXCEPT !.op = l.op, !.ticker = l.ticker, !.quantity = l.quantity,
                     !.is_int = l.is_int,
                     !.attempts = l.attempts + 1, !.exceptions = l.exceptions]

\* wrapper's "except exceptions": the last attempt re-raises to the caller,
\* an earlier one sleeps and calls the function again from its first line
RetryExcept(t) ==
    /\ pc[t] = "except"
    /\ IF loc[t].attempts + 1 = max_attempts
       THEN /\ pc' = [pc EXCEPT ![t] = "raised"]
            /\ loc' = [loc EXCEPT ![t] = Kept([loc[t] EXCEPT !.attempts = @ + 1])]
            /\ ghost' = [ghost EXCEPT !.all_ok = FALSE, !.cash = 0]
       ELSE /\ Goto(t, FirstLabel(loc[t].op), NextAttempt(loc[t]))
            /\ UNCHANGED ghost
    /\ UNCHANGED <<dbVars, cacheVars, now, result, pre, calls, faults>>

\* ------------------------------------------- app.load_demo_data: the reset
\* what the reset leaves the caller with
ResetDone == Result(TRUE, "reset", 0, 0, 0, 0)

\* the user asks for the full reset
CallReset(t) ==
    /\ pc[t] = "idle"
    /\ calls < MaxCalls
    /\ calls' = calls + 1
    /\ pre' = [pre EXCEPT ![t] = Ledger]
    /\ Goto(t, "reset_commit", [NoLocals EXCEPT !.op = "reset"])
    /\ UNCHANGED <<dbVars, cacheVars, now, result, faults, ghost>>

\* DELETE FROM trades; DELETE FROM positions; UPDATE account SET balance =
\* initial_balance; commit - on a connection of its own, past the store's
\* write functions and their caches
ResetCommit(t) ==
    /\ pc[t] = "reset_commit"
    /\ trades' = <<>>
    /\ positions' = {}
    /\ balance' = initial_balance
    /\ Finish(t, ResetDone)
    /\ ghost' = [ghost EXCEPT !.all_ok = FALSE]
    /\ UNCHANGED <<cacheVars, now, pre, calls, faults>>

\* ---------------------------------------------------------- specifications
\* a step of a standalone get_account_balance() / get_all_positions() call
ReadStep(t) ==
    \/ RetBalance(t)
    \/ GapBegin(t) \/ GapQuery(t) \/ GapFillTimestamp(t) \/ GapFillData(t)
    \/ ValueSum(t)

\* a step of execute_buy / execute_sell and of the store calls they make
Step(t) ==
    \/ GabBegin(t) \/ GabQuery(t) \/ GabFillTimestamp(t) \/ GabFillData(t)
    \/ UabCommit(t) \/ UabInvalidate(t) \/ UpCommit(t) \/ UpInvalidate(t)
    \/ BuyValidate(t) \/ BuyPrice(t) \/ BuyCheck(t) \/ BuyGetPosition(t)
    \/ BuyLog(t)
    \/ SellValidate(t) \/ SellGetPosition(t) \/ SellPrice(t) \/ SellCredit(t)
    \/ SellUpdatePosition(t) \/ SellLog(t)
    \/ Return(t)

\* a storage write fails with sqlite3.Error
WriteFails(t) ==
    /\ faults < MaxFaults
    /\ faults' = faults + 1
    /\ \/ UabCommitFails(t) \/ UpCommitFails(t) \/ BuyLogFails(t) \/ SellLogFails(t)

\* a storage read fails with sqlite3.Error
ReadRaises(t) ==
    /\ faults < MaxFaults
    /\ faults' = faults + 1
    /\ \/ GabQueryRaises(t) \/ GetPositionRaises(t)

Quiet == \A t \in Threads : pc[t] = "idle"

\* one call at a time: a single thread drives the ledger
SeqCallTrade ==
    /\ Quiet
    /\ calls < MaxCalls
    /\ \E op \in {"buy", "sell"}, k \in Tickers, q \in QuantityArgs :
          CallTrade(1, op, k, q)

SeqCallRead ==
    /\ Quiet
    /\ \E op \in {"balance", "positions", "value"} : CallRead(1, op)

\* the storage works: every write commits
Next ==
    \/ SeqCallTrade
    \/ SeqCallRead
    \/ \E t \in Threads : Step(t)
    \/ \E t \in Threads : ReadStep(t)
    \/ Tick

Spec == Init /\ [][Next]_vars

\* the same calls, and the full reset among them
SeqCallReset == Quiet /\ CallReset(1)

NextReset ==
    \/ Next
    \/ SeqCallReset
    \/ \E t \in Threads : ResetCommit(t)

SpecReset == Init /\ [][NextReset]_vars

\* a session on a new account: three orders on one ticker, filled at the
\* prices the oracle quotes at the time, in whole dollars
Orders ==
    <<[op |-> "buy", quantity |-> 10, price |-> 150],
      [op |-> "buy", quantity |-> 5, price |-> 180],
      [op |-> "sell", quantity |-> 5, price |-> 200]>>

\* the order placed next: the one after those already in the trade log
NextOrder == Orders[Len(trades) + 1]

PlaceOrder ==
    /\ Quiet
    /\ Len(trades) < Len(Orders)
    /\ \E k \in Tickers :
          /\ positions = {} \/ k \in {r.ticker : r \in positions}
          /\ CallTrade(1, NextOrder.op, k,
                       [value |-> NextOrder.quantity, is_int |-> TRUE])

Quote(t) ==
    LET lookup == [kind |-> "price", price |-> NextOrder.price]
    IN  BuyPriceOf(t, lookup) \/ SellPriceOf(t, lookup)

NextOrders ==
    \/ PlaceOrder
    \/ \E t \in Threads : Quote(t)
    \/ \E t \in Threads :
          \/ GabBegin(t) \/ GabQuery(t) \/ GabFillTimestamp(t) \/ GabFillData(t)
          \/ UabCommit(t) \/ UabInvalidate(t) \/ UpCommit(t) \/ UpInvalidate(t)
          \/ BuyValidate(t) \/ BuyCheck(t) \/ BuyGetPosition(t) \/ BuyLog(t)
          \/ SellValidate(t) \/ SellGetPosition(t) \/ SellCredit(t)
          \/ SellUpdatePosition(t) \/ SellLog(t)
          \/ Return(t)
    \/ Tick

SpecOrders == InitNewAccount /\ [][NextOrders]_vars

\* trades only, and the storage may fail: a write that fails makes the trade
\* take its failure exit, a read that fails raises into the retry wrapper
FaultCallTrade ==
    /\ Quiet
    /\ calls < MaxFaultCalls
    /\ \E op \in {"buy", "sell"}, k \in Tickers, q \in QuantityArgs :
          CallTrade(1, op, k, q)

NextFaults ==
    \/ FaultCallTrade
    \/ \E t \in Threads : Step(t)
    \/ Tick
    \/ \E t \in Threads : WriteFails(t)
    \/ \E t \in Threads : FailBalance(t) \/ Revert(t) \/ FailPosition(t)
    \/ \E t \in Threads : ReadRaises(t)
    \/ \E t \in Threads : RetryExcept(t)

SpecFaults == Init /\ [][NextFaults]_vars

\* calls from worker threads (execute_buy_async, the trade thread of the UI)
\* overlap freely
ConcCallTrade ==
    /\ calls < MaxConcCalls
    /\ \E t \in Threads, op \in {"buy", "sell"}, k \in Tickers, q \in QuantityArgs :
          CallTrade(t, op, k, q)

NextConc ==
    \/ ConcCallTrade
    \/ \E t \in Threads : Step(t)
    \/ Tick

SpecConc == InitHeld /\ [][NextConc]_vars


\* ------------------------------------------------------------------ claims
\* no call is running
AtRest == \A t \in Threads : pc[t] \in {"idle", "done", "raised"}

\* the quantity the rows hold of a ticker, 0 without a row
QtyIn(rows, ticker) ==
    IF \E r \in rows : r.ticker = ticker
    THEN (CHOOSE r \in rows : r.ticker = ticker).quantity
    ELSE 0

AvgIn(rows, ticker) ==
    IF \E r \in rows : r.ticker = ticker
    THEN (CHOOSE r \in rows : r.ticker = ticker).average_price
    ELSE 0

\* C1: when all calls so far returned success and none is running, the stored
\* balance is the starting balance minus the cost of every buy plus the proceeds
\* of every sell, and every ticker's stored quantity is its starting quantity
\* plus the bought minus the sold shares, whatever the interleaving.
C1_NoLostUpdate ==
    (AtRest /\ ghost.all_ok) =>
        /\ balance = ghost.start + ghost.cash
        /\ \A k \in Tickers : QtyIn(positions, k) = ghost.qty[k]

\* C2: the stored cash balance is never negative.
C2_BalanceNonNegative == balance >= 0

\* a buy whose cost was the whole balance has gone through and left zero
C2_Witness ==
    \E t \in Threads :
        /\ pc[t] = "done" /\ loc[t].op = "buy" /\ result[t].success
        /\ loc[t].amount = pre[t].balance
        /\ balance = 0

\* C3: every row of the positions table has a quantity above zero, and a
\* ticker has at most one row.
C3_RowsArePositive ==
    /\ \A r \in positions : r.quantity > 0
    /\ \A r1, r2 \in positions : r1.ticker = r2.ticker => r1 = r2

\* a sell has taken a position to quantity 0 and its row is gone
C3_Witness ==
    \E t \in Threads :
        /\ pc[t] = "done"
        /\ loc[t].op = "sell"
        /\ result[t].success
        /\ QtyIn(pre[t].positions, loc[t].ticker) = loc[t].quantity
        /\ ~ \E r \in positions : r.ticker = loc[t].ticker

\* the call thread t has finished
Done(t, op) == pc[t] = "done" /\ loc[t].op = op

\* the finished trade of thread t had a valid quantity and got a price
Priced(t) == loc[t].is_int /\ loc[t].quantity > 0 /\ loc[t].latest_price > 0

\* C4: a finished execute_buy whose cost exceeded the balance stored when it
\* was called returned the insufficient-funds failure, and balance, positions
\* and trade log are what they were when it was called.
C4_InsufficientFundsNoEffect ==
    \A t \in Threads :
        (Done(t, "buy") /\ Priced(t) /\ loc[t].amount > pre[t].balance) =>
            /\ result[t] = Failure(MsgInsufficientFunds)
            /\ Ledger = pre[t]

\* a buy was refused for its cost while the ledger held a position and a trade
C4_Witness ==
    \E t \in Threads :
        /\ Done(t, "buy") /\ Priced(t) /\ loc[t].amount > pre[t].balance
        /\ pre[t].positions # {}
        /\ pre[t].trades # <<>>

\* C5: a finished execute_sell whose quantity exceeded the quantity held when
\* it was called (0 without a position) returned the not-enough-shares failure,
\* and balance, positions and trade log are what they were when it was called.
C5_InsufficientSharesNoEffect ==
    \A t \in Threads :
        (/\ Done(t, "sell")
         /\ loc[t].is_int /\ loc[t].quantity > 0
         /\ loc[t].quantity > QtyIn(pre[t].positions, loc[t].ticker)) =>
            /\ result[t] = Failure(MsgNotEnoughShares)
            /\ Ledger = pre[t]

\* a sell of 2 shares was refused while 1 share was held
C5_Witness ==
    \E t \in Threads :
        /\ Done(t, "sell")
        /\ loc[t].quantity > QtyIn(pre[t].positions, loc[t].ticker)
        /\ QtyIn(pre[t].positions, loc[t].ticker) > 0

\* C6: after a successful buy the stored balance is the balance stored when it
\* was called minus quantity x fill price, after a successful sell plus
\* quantity x fill price, and the result's new_balance is the stored balance.
C6_BalanceAfterTrade ==
    \A t \in Threads :
        /\ (Done(t, "buy") /\ result[t].success) =>
              /\ balance = FSub(pre[t].balance, FMul(loc[t].quantity, result[t].price))
              /\ result[t].new_balance = balance
        /\ (Done(t, "sell") /\ result[t].success) =>
              /\ balance = FAdd(pre[t].balance, FMul(loc[t].quantity, result[t].price))
              /\ result[t].new_balance = balance

\* a sell has succeeded after an earlier buy had changed the balance
C6_Witness ==
    \E t \in Threads :
        /\ Done(t, "sell") /\ result[t].success
        /\ pre[t].balance # ghost.start
        /\ account_cache.data # None

\* the position of ticker k was built by successful buys only, from nothing
BoughtOnly(k) == AtRest /\ ghost.only_buys[k] /\ ghost.buys[k] > 0

\* quantity x average_price of the stored position, in exact arithmetic
Basis(k) == get_position(k)[1] * get_position(k)[2]

\* C7 as stated: after buys only, from no position, the stored quantity is the
\* sum of the bought quantities and quantity x average_price is exactly the
\* sum of quantity_i x fill_price_i.
C7_ExactWeightedMean ==
    \A k \in Tickers :
        BoughtOnly(k) =>
            /\ get_position(k)[1] = ghost.qty[k]
            /\ Basis(k) = ghost.paid[k]

\* C7: after buys only, from no position, the stored quantity is the sum of
\* the bought quantities, and quantity x average_price differs from the sum of
\* quantity_i x fill_price_i by at most the rounding of the float operations:
\* a relative error of 4 units in the last place per buy.
C7_WeightedMeanWithinRounding ==
    \A k \in Tickers :
        BoughtOnly(k) =>
            /\ get_position(k)[1] = ghost.qty[k]
            /\ Abs(Basis(k) - ghost.paid[k])
                  <= (4 * ghost.buys[k] * ghost.paid[k]) \div Pow2(MantBits)

\* two buys at different prices have left an average price that no float holds
C7_Witness ==
    \E k \in Tickers :
        /\ BoughtOnly(k)
        /\ ghost.buys[k] >= 2
        /\ Basis(k) # ghost.paid[k]

\* C8: a successful sell of fewer shares than were held leaves the position
\* with the average price it had and the quantity reduced by the sold quantity.
C8_SellKeepsAveragePrice ==
    \A t \in Threads :
        (/\ Done(t, "sell") /\ result[t].success
         /\ QtyIn(pre[t].positions, loc[t].ticker) > loc[t].quantity) =>
            get_position(loc[t].ticker) =
                <<QtyIn(pre[t].positions, loc[t].ticker) - loc[t].quantity,
                  AvgIn(pre[t].positions, loc[t].ticker)>>

\* one of two held shares has been sold at a price other than the average paid
C8_Witness ==
    \E t \in Threads :
        /\ Done(t, "sell") /\ result[t].success
        /\ QtyIn(pre[t].positions, loc[t].ticker) > loc[t].quantity
        /\ result[t].price # AvgIn(pre[t].positions, loc[t].ticker)

\* the moments at which a later read may enter
LaterTimes == now .. (now + CACHE_TTL)

\* the tickers of a positions frame
TickersOf(rows) == {r.ticker : r \in rows}

\* C9: after a successful sell of all the shares held, get_position returns
\* (0, 0) and get_all_positions(), whenever called next and whatever the
\* cache held, does not list the ticker; a finished get_all_positions() call
\* has returned the rows of the table.
C9_ExhaustedPositionGone ==
    \A t \in Threads :
        /\ (/\ Done(t, "sell") /\ result[t].success
            /\ QtyIn(pre[t].positions, loc[t].ticker) = loc[t].quantity) =>
               /\ get_position(loc[t].ticker) = <<0, 0>>
               /\ \A time \in LaterTimes :
                     loc[t].ticker \notin TickersOf(get_all_positions(time))
        /\ Done(t, "positions") => result[t].rows = positions

\* all shares were sold right after get_all_positions() had cached their row
C9_Witness ==
    \E t \in Threads :
        /\ Done(t, "sell") /\ result[t].success
        /\ QtyIn(pre[t].positions, loc[t].ticker) = loc[t].quantity
        /\ positions_cache.data # None
        /\ loc[t].ticker \in TickersOf(positions_cache.data[1])
        /\ now = StartTime

\* update_account_balance(loc[t].arg) has just returned True to the trade
BalanceWritten(t) == pc[t] \in {"buy_get_position", "sell_update_position"}

\* C10: once update_account_balance(v) has returned success, a
\* get_account_balance() call entering at any later moment returns v, and a
\* finished get_account_balance() call has returned the stored balance.
C10_ReadAfterWrite ==
    \A t \in Threads :
        /\ BalanceWritten(t) =>
              \A time \in LaterTimes : get_account_balance(time) = loc[t].arg
        /\ Done(t, "balance") => result[t].value = balance

\* the balance was read, in the second in which the cache had been filled with
\* the value a write then replaced
C10_Witness ==
    \E t \in Threads :
        /\ Done(t, "balance")
        /\ result[t].value # ghost.start
        /\ account_cache.data # None
        /\ now = StartTime

\* the call of thread t was a trade and has returned
TradeDone(t) == pc[t] = "done" /\ loc[t].op \in {"buy", "sell"}

\* what a store write returned
Ok(call) == [call |-> call, ok |-> TRUE]
Failed(call) == [call |-> call, ok |-> FALSE]

\* the store writes of the call's one attempt: balance written, position
\* write failed, compensating balance write succeeded
Compensated(t) ==
    /\ loc[t].attempts = 0
    /\ loc[t].io = <<Ok("update_account_balance"), Failed("update_position"),
                     Ok("update_account_balance")>>

\* C11: a trade whose position write failed after its balance write, and
\* whose compensating balance write succeeded, has returned the
\* position-error failure, and balance, positions and trade log are what they
\* were when it was called.
C11_CompensationRestoresBalance ==
    \A t \in Threads :
        (TradeDone(t) /\ Compensated(t)) =>
            /\ result[t] = Failure(MsgPositionError)
            /\ Ledger = pre[t]

\* a sell was compensated after an earlier buy had changed the balance
C11_Witness ==
    \E t \in Threads :
        /\ TradeDone(t) /\ Compensated(t)
        /\ loc[t].op = "sell"
        /\ pre[t].balance # ghost.start

\* C12: a trade whose balance write failed has returned the balance-error
\* failure after that one write: no position write and no log append was
\* made, and balance, positions and trade log are what they were at the call.
C12_BalanceWriteFailureStops ==
    \A t \in Threads :
        (/\ TradeDone(t) /\ loc[t].attempts = 0
         /\ loc[t].io # <<>>
         /\ loc[t].io[1] = Failed("update_account_balance")) =>
            /\ loc[t].io = <<Failed("update_account_balance")>>
            /\ result[t] = Failure(MsgBalanceError)
            /\ Ledger = pre[t]

\* the credit of a sell failed while shares were held
C12_Witness ==
    \E t \in Threads :
        /\ TradeDone(t) /\ loc[t].op = "sell"
        /\ loc[t].io = <<Failed("update_account_balance")>>
        /\ pre[t].positions # {}

\* the log append of the call failed after both writes had succeeded
LogFailed(t) ==
    /\ loc[t].attempts = 0
    /\ loc[t].io = <<Ok("update_account_balance"), Ok("update_position"),
                     Failed("log_trade")>>

\* the positions table after the fill of the finished trade of thread t
FilledRows(t) ==
    LET k == loc[t].ticker
        held == QtyIn(pre[t].positions, k)
        avg == AvgIn(pre[t].positions, k)
    IN  IF loc[t].op = "buy"
        THEN PositionRows(pre[t].positions, k, held + loc[t].quantity,
                          NewAveragePrice(held, avg, loc[t].amount,
                                          held + loc[t].quantity))
        ELSE PositionRows(pre[t].positions, k, held - loc[t].quantity, avg)

\* C13: a trade whose log append failed after its balance and position writes
\* has returned success, the balance and the position are those of the fill,
\* and the trade log is what it was at the call.
C13_LogFailureNotFatal ==
    \A t \in Threads :
        (TradeDone(t) /\ LogFailed(t)) =>
            /\ result[t].success
            /\ balance = IF loc[t].op = "buy"
                         THEN FSub(pre[t].balance, loc[t].amount)
                         ELSE FAdd(pre[t].balance, loc[t].amount)
            /\ result[t].new_balance = balance
            /\ positions = FilledRows(t)
            /\ trades = pre[t].trades

\* a buy that added to a held position went unlogged
C13_Witness ==
    \E t \in Threads :
        /\ TradeDone(t) /\ LogFailed(t)
        /\ loc[t].op = "buy"
        /\ QtyIn(pre[t].positions, loc[t].ticker) > 0
        /\ pre[t].trades # <<>>

\* the trades table is `log` with one more record, numbered above all of log
Appended(log, newlog) ==
    /\ Len(newlog) = Len(log) + 1
    /\ SubSeq(newlog, 1, Len(log)) = log
    /\ LET row == newlog[Len(newlog)]
       IN  /\ row.total_cost = FMul(row.quantity, row.price)
           /\ \A i \in 1 .. Len(log) : log[i].id < row.id

\* the call of thread t was a trade that returned success after log_trade
\* returned True
LoggedTrade(t) ==
    /\ TradeDone(t) /\ result[t].success /\ loc[t].attempts = 0
    /\ loc[t].io[Len(loc[t].io)] = Ok("log_trade")

\* C14: every step of buys, sells and valuations leaves the trades table as
\* it is or appends one record to it, with total_cost = quantity x price and
\* an identifier above all earlier ones; and a successful trade whose append
\* succeeded has added exactly one record, that of the trade.
C14_TradeLogAppendOnly ==
    /\ [][trades' = trades \/ Appended(trades, trades')]_vars
    /\ [](\A t \in Threads :
             LoggedTrade(t) =>
                 /\ Appended(pre[t].trades, trades)
                 /\ LET row == trades[Len(trades)]
                    IN  /\ row.ticker = loc[t].ticker
                        /\ row.order_type = (IF loc[t].op = "buy" THEN "BUY" ELSE "SELL")
                        /\ row.quantity = loc[t].quantity
                        /\ row.price = result[t].price)

\* a sell was logged after a buy, the positions frame having been read (by
\* get_all_positions or a valuation) along the way
C14_Witness ==
    /\ Len(trades) = 2
    /\ trades[1].order_type = "BUY" /\ trades[2].order_type = "SELL"
    /\ trades[2].quantity = 2
    /\ positions_cache.data # None
    /\ \E t \in Threads : LoggedTrade(t)

\* the call of thread t has ended, with a result or with an exception
Ended(t) == pc[t] \in {"done", "raised"} /\ loc[t].op \in {"buy", "sell"}

\* C15: no execute_buy / execute_sell call ends by raising an exception, and
\* every failed call has returned success = False with a message.
C15_NoExceptionEscapes ==
    \A t \in Threads :
        Ended(t) =>
            /\ pc[t] = "done"
            /\ ~ result[t].success => result[t].message # ""

\* the failures of a logical precondition
LogicalFailures ==
    {Failure(MsgInvalidQuantity), Failure(MsgInsufficientFunds),
     Failure(MsgNotEnoughShares)}

\* C16 as stated: a call that failed with InvalidQuantity, InsufficientFunds
\* or InsufficientShares ran the body exactly once.
C16_BodyRanOnce ==
    \A t \in Threads :
        (TradeDone(t) /\ result[t] \in LogicalFailures) => loc[t].attempts = 0

\* C16: the wrapper re-invokes the body only after an exception: the attempts
\* it has counted are the exceptions raised in the call, so an attempt ending
\* in InvalidQuantity, InsufficientFunds or InsufficientShares is the last,
\* and the body ran exactly once when no attempt raised.
C16_NoRetryOfLogicalFailure ==
    \A t \in Threads :
        /\ pc[t] # "except" => loc[t].attempts = loc[t].exceptions
        /\ (TradeDone(t) /\ result[t] \in LogicalFailures /\ loc[t].exceptions = 0)
              => loc[t].attempts = 0

\* a buy was refused for its cost by the attempt made after a read had raised
C16_Witness ==
    \E t \in Threads :
        /\ TradeDone(t)
        /\ result[t] = Failure(MsgInsufficientFunds)
        /\ loc[t].exceptions = 1

\* the failures the spec calls transient
TransientFailures ==
    {Failure(MsgNoPrice), Failure(MsgBalanceError), Failure(MsgPositionError)}

\* C17: a call surfaces a failed price fetch or a failed storage write only
\* after the fixed number of attempts.
C17_TransientFailureRetried ==
    \A t \in Threads :
        (TradeDone(t) /\ result[t] \in TransientFailures) =>
            loc[t].attempts + 1 = max_attempts

\* the wrapper never starts more than max_attempts attempts
AttemptsBounded == \A t \in Threads : loc[t].attempts <= max_attempts

\* C18: the attempts of a call are bounded by the retry count, and a call
\* whose every attempt failed has returned a failure result.
C18_BoundedAttemptsThenFailure ==
    /\ AttemptsBounded
    /\ \A t \in Threads :
          (Ended(t) /\ loc[t].exceptions = max_attempts) =>
              (pc[t] = "done" /\ ~ result[t].success)

\* the oracle was asked about the ticker of thread t's trade and the lookup
\* did `kind`
TradeLookup(t, kind) ==
    /\ loc[t].op \in {"buy", "sell"}
    /\ loc[t].lookups[loc[t].ticker].kind = kind

\* the trade of thread t has returned PriceUnavailable and changed nothing
PriceUnavailable(t) ==
    /\ pc[t] = "done"
    /\ result[t] = Failure(MsgNoPrice)
    /\ Ledger = pre[t]

\* C19: a trade for whose ticker the oracle had no price has returned the
\* no-price failure, and balance, positions and trade log are what they were
\* when it was called.
C19_NoPriceNoEffect ==
    \A t \in Threads : TradeLookup(t, "empty") => PriceUnavailable(t)

\* a sell of held shares, after an earlier trade, found no price
C19_Witness ==
    \E t \in Threads :
        /\ TradeLookup(t, "empty") /\ pc[t] = "done"
        /\ loc[t].op = "sell"
        /\ QtyIn(pre[t].positions, loc[t].ticker) >= loc[t].quantity
        /\ pre[t].trades # <<>>

\* the value get_portfolio_value owes for the rows, each ticker at the price
\* its lookup found and at its average price when the lookup found none or
\* raised
RECURSIVE ValueWithFallback(_, _)
ValueWithFallback(rows, lookups) ==
    IF rows = {} THEN 0
    ELSE LET row == CHOOSE r \in rows : TRUE
             price == IF lookups[row.ticker].kind = "price"
                      THEN lookups[row.ticker].price
                      ELSE row.average_price
         IN  FAdd(ValueWithFallback(rows \ {row}, lookups),
                  FMul(row.quantity, price))

BadQuantity(t) ==
    /\ loc[t].op \in {"buy", "sell"}
    /\ ~ (loc[t].is_int /\ loc[t].quantity > 0)

\* C21: a trade called with a quantity that is not a positive integer is at
\* its validation or has returned the invalid-quantity failure: it never
\* stands at a price lookup, a ledger read or a ledger write, it has asked the
\* oracle nothing, made no store write and raised nothing, and the ledger is
\* what it was at the call - whatever the oracle and the storage would do.
C21_InvalidQuantityBeforeIO ==
    \A t \in Threads :
        BadQuantity(t) =>
            /\ pc[t] \in {FirstLabel(loc[t].op), "done"}
            /\ loc[t].lookups = NoLocals.lookups
            /\ loc[t].io = <<>>
            /\ loc[t].exceptions = 0 /\ loc[t].attempts = 0
            /\ Ledger = pre[t]
            /\ pc[t] = "done" => result[t] = Failure(MsgInvalidQuantity)

\* a sell of 2.0 shares was refused while shares were held and storage had
\* failed before
C21_Witness ==
    \E t \in Threads :
        /\ BadQuantity(t) /\ pc[t] = "done"
        /\ loc[t].op = "sell" /\ ~ loc[t].is_int
        /\ QtyIn(pre[t].positions, loc[t].ticker) >= loc[t].quantity
        /\ faults > 0

\* C22: a finished get_portfolio_value() has asked the oracle about every
\* open position and has returned the sum, over all rows of the positions
\* table, of quantity x the price found, with the row's average_price for
\* each ticker without a price; no row is left out.
C22_PortfolioValueWithFallback ==
    \A t \in Threads :
        Done(t, "value") =>
            /\ \A r \in positions : loc[t].lookups[r.ticker] # NotAsked
            /\ loc[t].fetched = Some(positions)
            /\ result[t].success
            /\ result[t].value = ValueWithFallback(positions, loc[t].lookups)

\* a valuation of two positions: no price for one, for the other a price
\* different from the average paid
C22_Witness ==
    \E t \in Threads :
        /\ Done(t, "value")
        /\ \E r1, r2 \in positions :
              /\ loc[t].lookups[r1.ticker].kind = "empty"
              /\ loc[t].lookups[r2.ticker].kind = "price"
              /\ loc[t].lookups[r2.ticker].price # r2.average_price
        /\ result[t].value > 0

\* C23: after a full reset the trades table and the positions table are
\* empty and the balance is initial_balance, and get_account_balance() and
\* get_all_positions(), whenever called next, return the reset values.
C23_ResetIsVisible ==
    \A t \in Threads :
        Done(t, "reset") =>
            /\ trades = <<>> /\ positions = {} /\ balance = initial_balance
            /\ \A time \in LaterTimes :
                  /\ get_account_balance(time) = initial_balance
                  /\ get_all_positions(time) = {}

\* the one position of the ledger as (quantity, average_price)
OnePosition(quantity, average_price) ==
    /\ Cardinality(positions) = 1
    /\ \E r \in positions : r.quantity = quantity /\ r.average_price = average_price

\* C24: from balance 100000 and no position, buy 10 @ 150, buy 5 @ 180 and
\* sell 5 @ 200 on one ticker leave in turn: balance 98500 and position
\* (10, 150); balance 97600 and position (15, 160); and the sell returns
\* proceeds 1000 and pnl 200 and leaves position (10, 160) and balance 98600.
C24_Scenario ==
    \A t \in Threads :
        pc[t] = "done" =>
            /\ result[t].success
            /\ result[t].new_balance = balance
            /\ Len(trades) = 1 => (balance = 98500 /\ OnePosition(10, 150))
            /\ Len(trades) = 2 => (balance = 97600 /\ OnePosition(15, 160))
            /\ Len(trades) = 3 =>
                  /\ result[t].amount = 1000 /\ result[t].pnl = 200
                  /\ balance = 98600 /\ OnePosition(10, 160)

\* the sell of the scenario has returned
C24_Witness ==
    \E t \in Threads :
        /\ Done(t, "sell") /\ Len(trades) = 3
        /\ result[t].price = 200 /\ loc[t].quantity = 5
        /\ pre[t].balance = 97600

\* C25: a successful execute_sell has returned proceeds = quantity x fill
\* price and pnl = proceeds - quantity x the average_price the position had
\* when the sell was called, also when the sell closed the position.
C25_RealizedPnl ==
    \A t \in Threads :
        (Done(t, "sell") /\ result[t].success) =>
            /\ result[t].amount = FMul(loc[t].quantity, result[t].price)
            /\ result[t].pnl =
                  FSub(result[t].amount,
                       FMul(loc[t].quantity, AvgIn(pre[t].positions, loc[t].ticker)))

\* a sell closed a position at a price other than the average paid
C25_Witness ==
    \E t \in Threads :
        /\ Done(t, "sell") /\ result[t].success
        /\ QtyIn(pre[t].positions, loc[t].ticker) = loc[t].quantity
        /\ get_position(loc[t].ticker) = <<0, 0>>
        /\ result[t].pnl # 0

\* in the call's one attempt the balance was written, the position write
\* failed and the compensating balance write failed too
CompensationFailed(t) ==
    /\ loc[t].op \in {"buy", "sell"}
    /\ loc[t].attempts = 0
    /\ Len(loc[t].io) >= 3
    /\ SubSeq(loc[t].io, 1, 3) =
          <<Ok("update_account_balance"), Failed("update_position"),
            Failed("update_account_balance")>>

\* C26: once the compensating balance write has failed the trade makes no
\* further store call: it is about to return or has returned the
\* position-error failure, the balance is the debited / credited one, and
\* positions and trade log are what they were when it was called.
C26_FailedCompensationSurfaces ==
    \A t \in Threads :
        CompensationFailed(t) =>
            /\ Len(loc[t].io) = 3
            /\ pc[t] \in {"fail_position", "done"}
            /\ pc[t] = "done" => result[t] = Failure(MsgPositionError)
            /\ balance = IF loc[t].op = "buy"
                         THEN FSub(pre[t].balance, loc[t].amount)
                         ELSE FAdd(pre[t].balance, loc[t].amount)
            /\ positions = pre[t].positions
            /\ trades = pre[t].trades

\* a sell of held shares has returned with the credit left in the balance
C26_Witness ==
    \E t \in Threads :
        /\ CompensationFailed(t) /\ pc[t] = "done"
        /\ loc[t].op = "sell"
        /\ balance > pre[t].balance
        /\ QtyIn(positions, loc[t].ticker) >= loc[t].quantity

\* C27: one call moves the balance by one fill at most: a trade that has
\* returned success, after however many attempts, has left the balance stored
\* when it was called minus quantity x price for a buy, plus quantity x price
\* for a sell; and a sell that ended in any way has credited at most once.
C27_BalanceMovedOnce ==
    \A t \in Threads :
        /\ (TradeDone(t) /\ result[t].success) =>
              balance = IF loc[t].op = "buy"
                        THEN FSub(pre[t].balance, loc[t].amount)
                        ELSE FAdd(pre[t].balance, loc[t].amount)
        /\ (Ended(t) /\ loc[t].op = "sell") =>
              balance \in {pre[t].balance, FAdd(pre[t].balance, loc[t].amount)}

\* the cost basis of all open positions: the sum of quantity x average_price
RECURSIVE CostBasis(_)
CostBasis(rows) ==
    IF rows = {} THEN 0
    ELSE LET row == CHOOSE r \in rows : TRUE
         IN  row.quantity * row.average_price + CostBasis(rows \ {row})

\* what conservation leaves unexplained: balance + cost basis of the open
\* positions - (balance at start + pnl returned by the successful sells)
Unaccounted == balance + CostBasis(positions) - (ghost.start + ghost.pnl)

\* C28 as stated: between calls, balance + sum of quantity x average_price
\* is exactly the balance at start + the sum of the returned pnl values.
C28_ExactConservation == AtRest => Unaccounted = 0

\* the size of the amounts the ledger has held
Scale == ghost.start + balance + CostBasis(positions)

\* C28: between calls, balance + sum of quantity x average_price differs
\* from the balance at start + the sum of the returned pnl values by at most
\* the rounding of the float operations: a relative error of 4 units in the
\* last place per logged trade.
C28_ConservationWithinRounding ==
    AtRest => Abs(Unaccounted) <= (4 * Len(trades) * Scale) \div Pow2(MantBits)

\* after a sell with a pnl other than 0 the books are off by a rounding
C28_Witness ==
    /\ AtRest
    /\ ghost.pnl # 0
    /\ Unaccounted # 0
    /\ positions # {}

\* logged BUY quantities minus logged SELL quantities of ticker k in the
\* first n records of the trade log
RECURSIVE LoggedNet(_, _)
LoggedNet(k, n) ==
    IF n = 0 THEN 0
    ELSE LoggedNet(k, n - 1)
         + (IF trades[n].ticker # k THEN 0
            ELSE IF trades[n].order_type = "BUY" THEN trades[n].quantity
            ELSE -trades[n].quantity)

\* C29: between calls, from an empty ledger and with every log append
\* succeeding, each ticker's held quantity (0 without a position) is the sum
\* of its logged BUY quantities minus the sum of its logged SELL quantities;
\* and a call that returned a failure has added no log record.
C29_LedgerMatchesLog ==
    /\ AtRest => \A k \in Tickers : QtyIn(positions, k) = LoggedNet(k, Len(trades))
    /\ \A t \in Threads :
          (TradeDone(t) /\ ~ result[t].success) => trades = pre[t].trades

\* two shares bought and one of them sold, both logged, one share held
C29_Witness ==
    /\ AtRest
    /\ \E i, j \in 1 .. Len(trades) :
          /\ i < j
          /\ trades[i].ticker = trades[j].ticker
          /\ trades[i].order_type = "BUY" /\ trades[j].order_type = "SELL"
          /\ QtyIn(positions, trades[i].ticker) = trades[i].quantity - trades[j].quantity
          /\ QtyIn(positions, trades[i].ticker) > 0

\* no update_account_balance has committed without yet having invalidated
\* the cache, and no get_account_balance is between its two cache assignments
CacheSettled == \A u \in Threads : pc[u] \notin {"uab_invalidate", "gab_fill_data"}

\* C30: once an update_account_balance has returned, with no other update
\* or cache fill half done, a get_account_balance() call entering at any
\* later moment does not return a pre-update value from the cache: it returns
\* the stored balance, however the threads' steps were interleaved.
C30_CacheNeverStaleAsFresh ==
    ((\E t \in Threads : BalanceWritten(t)) /\ CacheSettled) =>
        \A time \in LaterTimes : get_account_balance(time) = balance

====
